---- MODULE Spec2Model ----
(***************************************************************************)
(* A model of spotify-helper: the Streamlit page script (app.py) and the   *)
(* two API functions of src/spotify_client.py.  A page run is the script   *)
(* executed top to bottom; it blocks at each HTTP call, so the run is cut  *)
(* into steps at the call boundaries and at the points where a request is  *)
(* awaiting its response.  Python values are modelled by strings: NoneVal  *)
(* is None, Absent is a key that a dict does not have.                     *)
(***************************************************************************)
EXTENDS Integers, Sequences, FiniteSets, TLC

VARIABLES
    CLIENT_ID,      \* st.secrets["spotify"]["CLIENT_ID"]
    CLIENT_SECRET,  \* st.secrets["spotify"]["CLIENT_SECRET"]
    session,        \* st.session_state.spotify_token (Absent: key not set)
    pc,             \* position of the running script or function
    caller,         \* who called the client function: "page" or "client"
    args,           \* arguments of the client function being executed
    ret_token,      \* value returned by get_spotify_token
    ret_tracks,     \* value returned by search_tracks
    token,          \* app.py local `token`
    search_query,   \* app.py local `search_query`
    search_limit,   \* app.py local `search_limit`
    tracks_raw,     \* app.py local `tracks_raw`
    df_tracks,      \* app.py local `df_tracks` (rows of the DataFrame)
    track_ids,      \* app.py local `track_ids`
    sent,           \* HTTP requests issued since the run (or call) began
    inflight,       \* endpoints with a request awaiting its response
    answered,       \* endpoints whose response has been received
    ui,             \* st.* elements rendered since the run (or call) began
    log,            \* logger records since the run (or call) began
    fault           \* exception that escaped to the top of the script

vars == <<CLIENT_ID, CLIENT_SECRET, session, pc, caller, args, ret_token,
          ret_tracks, token, search_query, search_limit, tracks_raw,
          df_tracks, track_ids, sent, inflight, answered, ui, log, fault>>

secrets  == <<CLIENT_ID, CLIENT_SECRET>>
pageVars == <<token, search_query, search_limit, tracks_raw, df_tracks,
              track_ids>>

----------------------------------------------------------------------------
\* Bounds of the model.
MaxItems == 3    \* longest tracks.items array a search response carries
MaxLimit == 100  \* largest limit a direct caller passes to search_tracks

\* Program constants.
ApiLimit      == 50
SliderMin     == 10
SliderMax     == 50
SliderDefault == 25

----------------------------------------------------------------------------
\* Python values.
NoneVal == "<None>"
Absent  == "<absent>"

\* bool(v) for the values the model uses: None and "" are falsy.
Truthy(v) == v # NoneVal /\ v # ""

\* dict.get(key) with the default None.
DictGet(v) == IF v = Absent THEN NoneVal ELSE v

Min(a, b) == IF a <= b THEN a ELSE b

RECURSIVE Join(_, _)
\* sep.join(strs)
Join(strs, sep) ==
    IF strs = <<>> THEN ""
    ELSE IF Len(strs) = 1 THEN Head(strs)
    ELSE Head(strs) \o sep \o Join(Tail(strs), sep)

----------------------------------------------------------------------------
\* What an endpoint can answer.  net = "fail" is a transport failure (no HTTP
\* response); otherwise status is the HTTP status and json tells whether the
\* body parses and to what: "invalid" (not JSON), "array" (JSON, not an
\* object) or "object".
Statuses == {200, 401, 503}

TransportFailure == [net |-> "fail", status |-> 0, json |-> "invalid"]

HttpAnswers ==
    { [net |-> "ok", status |-> s, json |-> "invalid"] : s \in Statuses }
    \cup { [net |-> "ok", status |-> 200, json |-> "array"] }

\* Response.raise_for_status(): HTTPError for a 4xx or 5xx status.
RaiseForStatus(status) == status >= 400 /\ status < 600

\* The exception classes the model distinguishes, and which of them are
\* requests.exceptions.RequestException.  Response.json() raises
\* requests.exceptions.JSONDecodeError (a RequestException) or, with older
\* versions of requests, a plain ValueError.
JsonErrors == {"JSONDecodeError", "ValueError"}
IsRequestException(exc) == exc \in {"ConnectionError", "HTTPError", "JSONDecodeError"}

\* The exceptions raised by requests.get/post, raise_for_status() and
\* json() for an answer, before the body is looked at ({} when none).
TransportErrors(resp) ==
    IF resp.net = "fail" THEN {"ConnectionError"}
    ELSE IF RaiseForStatus(resp.status) THEN {"HTTPError"}
    ELSE IF resp.json = "invalid" THEN JsonErrors
    ELSE IF resp.json = "array" THEN {"AttributeError"}
    ELSE {}

----------------------------------------------------------------------------
\* get_spotify_token

TokenValues == {"X", "Y"}

\* Answers of the account/token endpoint: a JSON object carries the
\* access_token field, or lacks it (Absent).
TokenResponses ==
    {TransportFailure} \cup HttpAnswers
    \cup { [net |-> "ok", status |-> s, json |-> "object", access_token |-> v] :
             s \in {200, 401}, v \in TokenValues \cup {Absent, NoneVal, ""} }

\* Mutant: the credentials test joins its two halves with `and`.
CredentialsMissingBoth(client_id, client_secret) ==
    ~Truthy(client_id) /\ ~Truthy(client_secret)

\* if not client_id or not client_secret
CredentialsMissing(client_id, client_secret) ==
    ~Truthy(client_id) \/ ~Truthy(client_secret)

\* base64.b64encode(auth_str.encode()).decode(), kept symbolic
B64(str) == "b64(" \o str \o ")"

TokenRequest(client_id, client_secret) ==
    [endpoint      |-> "token",
     method        |-> "POST",
     authorization |-> "Basic " \o B64(client_id \o ":" \o client_secret),
     grant_type    |-> "client_credentials"]

\* Mutant: the body is asked for a key it does not have.
BodyAccessTokenWrongKey(resp) == NoneVal

\* token_info.get("access_token")
BodyAccessToken(resp) == DictGet(resp.access_token)

\* Mutant: only the empty string counts as a missing token.
AccessTokenIsEmptyString(access_token) == access_token = ""

\* if not access_token
AccessTokenMissing(access_token) == ~Truthy(access_token)

\* The two except clauses of get_spotify_token.
TokenExcept(exc) ==
    IF IsRequestException(exc)
    THEN [ret |-> NoneVal,
          log |-> <<"ERROR Error obtaining Spotify token: " \o exc>>,
          ui  |-> <<"error: Network or API error obtaining token: " \o exc>>]
    ELSE [ret |-> NoneVal,
          log |-> <<"ERROR An unexpected error occurred during token retrieval: " \o exc>>,
          ui  |-> <<"error: An unexpected error occurred. Check logs.">>]

\* Lines 38-57: what get_spotify_token returns, logs and renders for an
\* answer of the token endpoint.
TokenOutcomes(resp) ==
    IF TransportErrors(resp) # {}
    THEN { TokenExcept(exc) : exc \in TransportErrors(resp) }
    ELSE LET access_token == BodyAccessToken(resp) IN
         IF AccessTokenMissing(access_token)
         THEN { [ret |-> NoneVal,
                 log |-> <<"ERROR Access token not found in response.">>,
                 ui  |-> <<"error: Could not retrieve access token from Spotify response.">>] }
         ELSE { [ret |-> access_token,
                 log |-> <<"INFO Successfully obtained Spotify token.">>,
                 ui  |-> <<>>] }

\* Where a client function returns to.
ReturnSite(fn) ==
    IF caller = "client" THEN "client_return"
    ELSE IF fn = "get_spotify_token" THEN "page_28" ELSE "page_57"

\* get_spotify_token, from its entry to the blocking requests.post (or to
\* the early return for missing credentials).
GetTokenEnter ==
    /\ pc = "get_spotify_token"
    /\ IF CredentialsMissing(args.client_id, args.client_secret)
       THEN /\ log' = Append(log, "ERROR Client ID or Client Secret not provided.")
            /\ ret_token' = NoneVal
            /\ pc' = ReturnSite("get_spotify_token")
            /\ UNCHANGED <<sent, inflight>>
       ELSE /\ sent' = Append(sent, TokenRequest(args.client_id, args.client_secret))
            /\ inflight' = inflight \cup {"token"}
            /\ pc' = "get_spotify_token_wait"
            /\ UNCHANGED <<log, ret_token>>
    /\ UNCHANGED <<secrets, session, caller, args, ret_tracks, pageVars,
                   answered, ui, fault>>

\* get_spotify_token, from the answer of the token endpoint to its return.
GetTokenResponse ==
    /\ pc = "get_spotify_token_wait"
    /\ \E resp \in TokenResponses :
         \E out \in TokenOutcomes(resp) :
            /\ ret_token' = out.ret
            /\ log' = log \o out.log
            /\ ui' = ui \o out.ui
            /\ answered' = Append(answered, [endpoint |-> "token", resp |-> resp])
    /\ inflight' = inflight \ {"token"}
    /\ pc' = ReturnSite("get_spotify_token")
    /\ UNCHANGED <<secrets, session, caller, args, ret_tracks, pageVars,
                   sent, fault>>

----------------------------------------------------------------------------
\* Track objects of a search response.  `missing` holds the keys the object
\* does not have; `null` marks a null entry of the items array.

Track(id, name, artists, album, missing) ==
    [null |-> FALSE, id |-> id, name |-> name, artists |-> artists,
     album |-> album, missing |-> missing]

NullItem ==
    [null |-> TRUE, id |-> "", name |-> "", artists |-> <<>>, album |-> "",
     missing |-> {}]

TrackUniverse ==
    { Track("A", "Song A", <<"Ar1", "Ar2">>, "Album 1", {}),
      Track("A", "Song A (single)", <<"Ar1">>, "Album 2", {}),
      Track("B", "Song B", <<"Ar2">>, "Album 1", {}),
      Track("", "Song D", <<"Ar1">>, "Album 1", {"id"}),
      Track(NoneVal, "Song E", <<"Ar1">>, "Album 1", {}),
      Track("", "Song F", <<"Ar1">>, "Album 1", {}),
      Track("C", "", <<"Ar1">>, "Album 1", {"name"}),
      Track("C", "Song C", <<>>, "Album 1", {"artists"}),
      Track("C", "Song C", <<"Ar1">>, "", {"album"}),
      NullItem }

RECURSIVE SeqsUpTo(_, _)
\* The sequences over S of length at most n.
SeqsUpTo(S, n) ==
    IF n = 0 THEN {<<>>}
    ELSE LET shorter == SeqsUpTo(S, n - 1) IN
         shorter \cup { Append(q, x) : q \in shorter, x \in S }

ItemLists == SeqsUpTo(TrackUniverse, MaxItems)

\* track.get("id")
TrackGetId(track) == IF "id" \in track.missing THEN NoneVal ELSE track.id

----------------------------------------------------------------------------
\* search_tracks

\* Answers of the search endpoint: a JSON object may lack "tracks" or
\* "items", or carry null for them.
SearchResponses ==
    {TransportFailure} \cup HttpAnswers
    \cup { [net |-> "ok", status |-> 200, json |-> "object", tracks |-> t,
            items_key |-> "absent", items |-> <<>>] : t \in {"absent", "null", "object"} }
    \cup { [net |-> "ok", status |-> 200, json |-> "object", tracks |-> "object",
            items_key |-> "null", items |-> <<>>] }
    \cup { [net |-> "ok", status |-> 200, json |-> "object", tracks |-> "object",
            items_key |-> "list", items |-> items] : items \in ItemLists }

\* if not token
InvalidToken(tok) == ~Truthy(tok)

\* Mutant: the limit is passed on as given.
EffectiveLimitUnclamped(limit) == limit

\* min(limit, 50)
EffectiveLimit(limit) == Min(limit, ApiLimit)

SearchRequest(tok, query, limit) ==
    [endpoint      |-> "search",
     method        |-> "GET",
     authorization |-> "Bearer " \o tok,
     q             |-> query,
     type          |-> "track",
     limit         |-> EffectiveLimit(limit)]

\* The exceptions raised inside the try block of search_tracks.
SearchErrors(resp) ==
    IF TransportErrors(resp) # {} THEN TransportErrors(resp)
    ELSE IF resp.tracks = "null" THEN {"AttributeError"}
    ELSE IF resp.tracks = "object" /\ resp.items_key = "null" THEN {"TypeError"}
    ELSE {}

\* data.get("tracks", {}).get("items", [])
BodyItems(resp) ==
    IF resp.tracks = "absent" \/ resp.items_key = "absent" THEN <<>>
    ELSE resp.items

\* The two except clauses of search_tracks.
SearchExcept(exc) ==
    IF IsRequestException(exc)
    THEN [ret |-> <<>>,
          log |-> <<"ERROR Error searching tracks: " \o exc>>,
          ui  |-> <<"error: API error during track search: " \o exc>>]
    ELSE [ret |-> <<>>,
          log |-> <<"ERROR An unexpected error occurred during track search: " \o exc>>,
          ui  |-> <<"error: An unexpected error occurred during track search.">>]

\* Lines 81-95: what search_tracks returns, logs and renders for an answer.
SearchOutcomes(resp, query) ==
    IF SearchErrors(resp) # {}
    THEN { SearchExcept(exc) : exc \in SearchErrors(resp) }
    ELSE LET tracks == BodyItems(resp) IN
         { [ret |-> tracks,
            log |-> <<"INFO Found " \o ToString(Len(tracks))
                      \o " tracks for query: '" \o query \o "'">>,
            ui  |-> <<>>] }

\* search_tracks, from its entry to the blocking requests.get (or to the
\* early return for a missing token).
SearchEnter ==
    /\ pc = "search_tracks"
    /\ IF InvalidToken(args.token)
       THEN /\ ui' = Append(ui, "error: Invalid or missing Spotify token.")
            /\ ret_tracks' = <<>>
            /\ pc' = ReturnSite("search_tracks")
            /\ UNCHANGED <<sent, inflight>>
       ELSE /\ sent' = Append(sent, SearchRequest(args.token, args.query, args.limit))
            /\ inflight' = inflight \cup {"search"}
            /\ pc' = "search_tracks_wait"
            /\ UNCHANGED <<ui, ret_tracks>>
    /\ UNCHANGED <<secrets, session, caller, args, ret_token, pageVars,
                   answered, log, fault>>

\* search_tracks, from the answer of the search endpoint to its return.
SearchResponse ==
    /\ pc = "search_tracks_wait"
    /\ \E resp \in SearchResponses :
         \E out \in SearchOutcomes(resp, args.query) :
            /\ ret_tracks' = out.ret
            /\ log' = log \o out.log
            /\ ui' = ui \o out.ui
            /\ answered' = Append(answered, [endpoint |-> "search", resp |-> resp])
    /\ inflight' = inflight \ {"search"}
    /\ pc' = ReturnSite("search_tracks")
    /\ UNCHANGED <<secrets, session, caller, args, ret_token, pageVars,
                   sent, fault>>

----------------------------------------------------------------------------
\* The page script, app.py

Queries      == {"", "Discover"}
SliderValues == {SliderMin, SliderMax}

NoArgs == [fn |-> "none"]

\* Mutant: a failed fetch leaves the session token as it was.
SessionAfterTokenStale(tok, old) == IF Truthy(tok) THEN tok ELSE old

\* Lines 28-31: the value of st.session_state.spotify_token after the call
\* of get_spotify_token returned tok (old: its value before).
SessionAfterToken(tok, old) == IF Truthy(tok) THEN tok ELSE NoneVal

\* Mutant: the filter keeps every track object, whatever its id.
RowFilterAnyObject(track) == ~track.null

\* for track in tracks_raw if track and track.get("id")
RowFilter(track) == ~track.null /\ Truthy(TrackGetId(track))

\* The dict of lines 62-67 subscripts id, name, artists and album: KeyError
\* for a track that lacks one of them.
RowRaises(track) == track.missing \cap {"id", "name", "artists", "album"} # {}

Row(track) ==
    [id     |-> track.id,
     name   |-> track.name,
     artist |-> Join(track.artists, ", "),
     album  |-> track.album]

RECURSIVE DropDup(_, _)
DropDup(rows, seen) ==
    IF rows = <<>> THEN <<>>
    ELSE IF Head(rows).id \in seen THEN DropDup(Tail(rows), seen)
    ELSE <<Head(rows)>> \o DropDup(Tail(rows), seen \cup {Head(rows).id})

RECURSIVE DropDupLast(_)
\* Mutant: drop_duplicates(keep="last").
DropDupLast(rows) ==
    IF rows = <<>> THEN <<>>
    ELSE IF \E i \in 2..Len(rows) : rows[i].id = Head(rows).id
         THEN DropDupLast(Tail(rows))
         ELSE <<Head(rows)>> \o DropDupLast(Tail(rows))

\* DataFrame.drop_duplicates(subset=["id"]): keeps the first row of each id.
DropDuplicates(rows) == DropDup(rows, {})

\* Mutant: only None counts as no result, and search_tracks returns a list.
NoTracksIsNone(raw) == FALSE

\* if not tracks_raw
NoTracks(raw) == raw = <<>>

FeaturesRequest(tok, ids) ==
    [endpoint      |-> "features",
     method        |-> "GET",
     authorization |-> "Bearer " \o tok,
     ids           |-> Join(ids, ",")]

\* Answers of the features endpoint: audio_features may be absent, null,
\* an empty array, an array of records, or an array with null entries.
FeatureResponses ==
    {TransportFailure} \cup HttpAnswers
    \cup { [net |-> "ok", status |-> 200, json |-> "object", audio_features |-> f] :
             f \in {"absent", "null", "empty", "records", "records_and_nulls"} }

\* Lines 83-94: what the page renders and logs for an answer of the features
\* endpoint.  Everything is inside try/except Exception.  Whether
\* pd.DataFrame accepts an array with null entries is left open: it either
\* builds the table or raises inside the try block.
FeatureOutcomes(resp) ==
    LET failed(exc) == [log |-> <<"ERROR Error fetching audio features: " \o exc>>,
                        ui  |-> <<"error: Error fetching audio features: " \o exc>>]
        table == [log |-> <<>>,
                  ui  |-> <<"subheader: Audio Features", "dataframe: features">>]
    IN
    IF TransportErrors(resp) # {}
    THEN { failed(exc) : exc \in TransportErrors(resp) }
    ELSE IF resp.audio_features \in {"absent", "null", "empty"}
    THEN { [log |-> <<>>,
            ui  |-> <<"warning: No audio features found for the selected tracks.">>] }
    ELSE IF resp.audio_features = "records" THEN {table}
    ELSE {table, failed("AttributeError")}

\* Mutant: a token already in the session state is reused, and the token
\* request is skipped.
PageLoadCached ==
    /\ pc = "load"
    /\ ui' = Append(ui, "title: Spotify Audio Features Analysis")
    /\ session' = IF session = Absent THEN NoneVal ELSE session
    /\ caller' = "page"
    /\ IF Truthy(session')
       THEN /\ pc' = "page_40"
            /\ UNCHANGED args
       ELSE /\ args' = [fn |-> "get_spotify_token", client_id |-> CLIENT_ID,
                        client_secret |-> CLIENT_SECRET]
            /\ pc' = "get_spotify_token"
    /\ UNCHANGED <<secrets, ret_token, ret_tracks, pageVars, sent, inflight,
                   answered, log, fault>>

\* Lines 14-27: the script starts, initialises the session key and calls
\* get_spotify_token(CLIENT_ID, CLIENT_SECRET).
PageLoad ==
    /\ pc = "load"
    /\ ui' = Append(ui, "title: Spotify Audio Features Analysis")
    /\ session' = IF session = Absent THEN NoneVal ELSE session
    /\ caller' = "page"
    /\ args' = [fn |-> "get_spotify_token", client_id |-> CLIENT_ID,
                client_secret |-> CLIENT_SECRET]
    /\ pc' = "get_spotify_token"
    /\ UNCHANGED <<secrets, ret_token, ret_tracks, pageVars, sent, inflight,
                   answered, log, fault>>

\* Lines 27-37: the returned token is stored in the session state and the
\* token status is rendered.
PageTokenReturned ==
    /\ pc = "page_28"
    /\ token' = ret_token
    /\ session' = SessionAfterToken(ret_token, session)
    /\ ui' = ui
             \o (IF Truthy(ret_token) THEN <<>>
                 ELSE <<"error: Failed to get token. Check credentials.">>)
             \o (IF Truthy(session') THEN <<"success: Token is active.">>
                 ELSE <<"warning: Token not available. Please authenticate.">>)
    /\ pc' = "page_40"
    /\ UNCHANGED <<secrets, caller, args, ret_token, ret_tracks, search_query,
                   search_limit, tracks_raw, df_tracks, track_ids, sent,
                   inflight, answered, log, fault>>

\* Lines 40-55: the widgets are rendered with the user's input; a pressed
\* button checks the session token and the query and calls search_tracks.
PageWidgets ==
    /\ pc = "page_40"
    /\ \E query \in Queries, limit \in SliderValues, pressed \in BOOLEAN :
         /\ search_query' = query
         /\ search_limit' = limit
         /\ LET widgets == ui \o <<"header: Fetch Tracks">>
                tok == DictGet(session)
            IN
            IF ~pressed
            THEN /\ ui' = widgets
                 /\ pc' = "done"
                 /\ UNCHANGED <<token, args>>
            ELSE /\ token' = tok
                 /\ IF ~Truthy(tok)
                    THEN /\ ui' = Append(widgets, "error: Please enter your Spotify credentials and click 'Get Spotify Token' first.")
                         /\ pc' = "done"
                         /\ UNCHANGED args
                    ELSE IF ~Truthy(query)
                    THEN /\ ui' = Append(widgets, "warning: Please enter a search query.")
                         /\ pc' = "done"
                         /\ UNCHANGED args
                    ELSE /\ ui' = Append(widgets, "spinner: Searching for '" \o query \o "'...")
                         /\ args' = [fn |-> "search_tracks", token |-> tok,
                                     query |-> query, limit |-> limit]
                         /\ pc' = "search_tracks"
    /\ UNCHANGED <<secrets, session, caller, ret_token, ret_tracks, tracks_raw,
                   df_tracks, track_ids, sent, inflight, answered, log, fault>>

\* Lines 55-83: the result of search_tracks is turned into the track table
\* and the features request is issued.  A KeyError escapes the script when
\* a kept track lacks a key (lines 62-67) or when no track is kept, so that
\* the DataFrame has no columns to select (line 72).
PageSearchReturned ==
    /\ pc = "page_57"
    /\ tracks_raw' = ret_tracks
    /\ LET kept == SelectSeq(ret_tracks, RowFilter)
           raises == \E i \in 1..Len(kept) : RowRaises(kept[i])
           df == DropDuplicates([i \in DOMAIN kept |-> Row(kept[i])])
           ids == [i \in DOMAIN df |-> df[i].id]
           subheader == "subheader: Fetched Tracks (" \o ToString(Len(df)) \o ")"
       IN
       IF NoTracks(ret_tracks)
       THEN /\ ui' = Append(ui, "warning: No tracks found for your query.")
            /\ pc' = "done"
            /\ UNCHANGED <<df_tracks, track_ids, sent, inflight, fault>>
       ELSE IF raises
       THEN /\ fault' = "KeyError"
            /\ pc' = "fault"
            /\ UNCHANGED <<df_tracks, track_ids, sent, inflight, ui>>
       ELSE IF df = <<>>
       THEN /\ df_tracks' = df
            /\ ui' = Append(ui, subheader)
            /\ fault' = "KeyError"
            /\ pc' = "fault"
            /\ UNCHANGED <<track_ids, sent, inflight>>
       ELSE /\ df_tracks' = df
            /\ ui' = ui \o <<subheader, "dataframe: tracks">>
            /\ track_ids' = ids
            /\ IF ids # <<>>
               THEN /\ sent' = Append(sent, FeaturesRequest(token, ids))
                    /\ inflight' = inflight \cup {"features"}
                    /\ pc' = "features_wait"
               ELSE /\ pc' = "done"
                    /\ UNCHANGED <<sent, inflight>>
            /\ UNCHANGED fault
    /\ UNCHANGED <<secrets, session, caller, args, ret_token, ret_tracks,
                   token, search_query, search_limit, answered, log>>

\* Lines 83-94: the answer of the features endpoint is rendered.
PageFeaturesResponse ==
    /\ pc = "features_wait"
    /\ \E resp \in FeatureResponses :
         \E out \in FeatureOutcomes(resp) :
            /\ ui' = ui \o out.ui
            /\ log' = log \o out.log
            /\ answered' = Append(answered, [endpoint |-> "features", resp |-> resp])
    /\ inflight' = inflight \ {"features"}
    /\ pc' = "done"
    /\ UNCHANGED <<secrets, session, caller, args, ret_token, ret_tracks,
                   pageVars, sent, fault>>

\* Streamlit runs the script again on the next interaction: the session
\* state is kept, everything else starts afresh.
Rerun ==
    /\ pc \in {"done", "fault"}
    /\ pc' = "load"
    /\ args' = NoArgs
    /\ ret_token' = NoneVal
    /\ ret_tracks' = <<>>
    /\ token' = NoneVal
    /\ search_query' = ""
    /\ search_limit' = SliderDefault
    /\ tracks_raw' = <<>>
    /\ df_tracks' = <<>>
    /\ track_ids' = <<>>
    /\ sent' = <<>>
    /\ inflight' = {}
    /\ answered' = <<>>
    /\ ui' = <<>>
    /\ log' = <<>>
    /\ fault' = "none"
    /\ UNCHANGED <<secrets, session, caller>>

Init ==
    /\ CLIENT_ID \in {"", "cid"}
    /\ CLIENT_SECRET \in {"", "secret"}
    /\ session = Absent
    /\ pc = "load"
    /\ caller = "page"
    /\ args = NoArgs
    /\ ret_token = NoneVal
    /\ ret_tracks = <<>>
    /\ token = NoneVal
    /\ search_query = ""
    /\ search_limit = SliderDefault
    /\ tracks_raw = <<>>
    /\ df_tracks = <<>>
    /\ track_ids = <<>>
    /\ sent = <<>>
    /\ inflight = {}
    /\ answered = <<>>
    /\ ui = <<>>
    /\ log = <<>>
    /\ fault = "none"

Next ==
    \/ PageLoad
    \/ GetTokenEnter
    \/ GetTokenResponse
    \/ PageTokenReturned
    \/ PageWidgets
    \/ SearchEnter
    \/ SearchResponse
    \/ PageSearchReturned
    \/ PageFeaturesResponse
    \/ Rerun

Spec == Init /\ [][Next]_vars

----------------------------------------------------------------------------
\* The client module called directly, with arguments the page never passes.

DirectCredentials == {NoneVal, ""}
DirectTokens      == {NoneVal, "", "X"}
DirectLimits      == {0, 1, ApiLimit - 1, ApiLimit, ApiLimit + 1, MaxLimit}

\* A caller invokes get_spotify_token(client_id, client_secret).
ClientCallToken ==
    /\ pc = "client"
    /\ \E client_id \in DirectCredentials \cup {"cid"},
          client_secret \in DirectCredentials \cup {"secret"} :
         args' = [fn |-> "get_spotify_token", client_id |-> client_id,
                  client_secret |-> client_secret]
    /\ pc' = "get_spotify_token"
    /\ UNCHANGED <<secrets, session, caller, ret_token, ret_tracks, pageVars,
                   sent, inflight, answered, ui, log, fault>>

\* A caller invokes search_tracks(token, query, limit).
ClientCallSearch ==
    /\ pc = "client"
    /\ \E tok \in DirectTokens, query \in Queries, limit \in DirectLimits :
         args' = [fn |-> "search_tracks", token |-> tok, query |-> query,
                  limit |-> limit]
    /\ pc' = "search_tracks"
    /\ UNCHANGED <<secrets, session, caller, ret_token, ret_tracks, pageVars,
                   sent, inflight, answered, ui, log, fault>>

\* The caller has taken the result; what the call returned, sent, rendered
\* and logged is observed per call.
ClientReturn ==
    /\ pc = "client_return"
    /\ pc' = "client"
    /\ args' = NoArgs
    /\ ret_token' = NoneVal
    /\ ret_tracks' = <<>>
    /\ sent' = <<>>
    /\ answered' = <<>>
    /\ ui' = <<>>
    /\ log' = <<>>
    /\ UNCHANGED <<secrets, session, caller, pageVars, inflight, fault>>

InitClient ==
    /\ CLIENT_ID = "cid"
    /\ CLIENT_SECRET = "secret"
    /\ session = Absent
    /\ pc = "client"
    /\ caller = "client"
    /\ args = NoArgs
    /\ ret_token = NoneVal
    /\ ret_tracks = <<>>
    /\ token = NoneVal
    /\ search_query = ""
    /\ search_limit = SliderDefault
    /\ tracks_raw = <<>>
    /\ df_tracks = <<>>
    /\ track_ids = <<>>
    /\ sent = <<>>
    /\ inflight = {}
    /\ answered = <<>>
    /\ ui = <<>>
    /\ log = <<>>
    /\ fault = "none"

NextClient ==
    \/ ClientCallToken
    \/ ClientCallSearch
    \/ ClientReturn
    \/ GetTokenEnter
    \/ GetTokenResponse
    \/ SearchEnter
    \/ SearchResponse

SpecClient == InitClient /\ [][NextClient]_vars

----------------------------------------------------------------------------
\* Vocabulary of the properties, stated on what was sent, answered and
\* rendered rather than through the operators of the model.

InSeq(q, x) == \E i \in DOMAIN q : q[i] = x

SentTo(endpoint) == \E i \in DOMAIN sent : sent[i].endpoint = endpoint

Empty(v) == v \in {Absent, NoneVal, ""}

Is2xx(resp) == resp.net = "ok" /\ resp.status >= 200 /\ resp.status <= 299

\* The answer the endpoint gave in this run (or call), as a set of 0 or 1.
AnswersOf(endpoint) ==
    { answered[i].resp : i \in { j \in DOMAIN answered : answered[j].endpoint = endpoint } }

\* A 2xx answer of the token endpoint whose body is an object.
TokenBody(resp) == Is2xx(resp) /\ resp.json = "object"

\* The call of get_spotify_token has returned to the page and lines 28-37
\* have run.
TokenStored == pc \notin {"load", "get_spotify_token", "get_spotify_token_wait", "page_28"}

\* The id of an entry of tracks.items, None when it has none.
RawId(track) == IF track.null \/ "id" \in track.missing THEN NoneVal ELSE track.id

\* The track table has been rendered in this run.
TracksShown == InSeq(ui, "dataframe: tracks")

\* Index of the first entry of tracks_raw with the given id.
FirstIndex(id) ==
    CHOOSE k \in DOMAIN tracks_raw :
        /\ RawId(tracks_raw[k]) = id
        /\ \A m \in 1..(k - 1) : RawId(tracks_raw[m]) # id

----------------------------------------------------------------------------
\* C1: a call of get_spotify_token with an empty or missing client_id or
\* client_secret returns None and issues no request to the token endpoint.
C1_MissingCredentialsNoRequest ==
    ( /\ args.fn = "get_spotify_token"
      /\ pc # "get_spotify_token"
      /\ (args.client_id \in {NoneVal, ""} \/ args.client_secret \in {NoneVal, ""}) )
    => ( /\ pc = "client_return"
         /\ ret_token = NoneVal
         /\ ~SentTo("token")
         /\ inflight = {} )

C1_Witness ==
    /\ pc = "client_return"
    /\ args.fn = "get_spotify_token"
    /\ args.client_id = "cid"
    /\ args.client_secret = ""
    /\ ret_token = NoneVal
    /\ sent = <<>>

\* C2 as stated: whenever the token endpoint answers 2xx with a body whose
\* access_token field is X, get_spotify_token returns X and the page stores X
\* as the session token.
C2_AnyTokenReturnedAndStored ==
    \A resp \in AnswersOf("token") :
        (TokenBody(resp) /\ resp.access_token # Absent)
        => ( /\ ret_token = resp.access_token
             /\ TokenStored => session = resp.access_token )

\* C2 amended: whenever the token endpoint answers 2xx with a body whose
\* access_token field is a non-empty value X, get_spotify_token returns X and
\* the page stores X as the session token.
C2_TokenReturnedAndStored ==
    \A resp \in AnswersOf("token") :
        (TokenBody(resp) /\ ~Empty(resp.access_token))
        => ( /\ ret_token = resp.access_token
             /\ TokenStored => (session = resp.access_token /\ token = resp.access_token) )

C2_Witness ==
    /\ pc = "page_40"
    /\ CLIENT_ID = "cid"
    /\ CLIENT_SECRET = "secret"
    /\ \E resp \in AnswersOf("token") : TokenBody(resp) /\ resp.access_token = "Y"
    /\ ret_token = "Y"
    /\ session = "Y"

\* C3: when the token endpoint answers 2xx with a body that has no
\* access_token field, get_spotify_token returns no token and reports the
\* missing token (not a network or unexpected error); the page gets a
\* failure, not a token.
C3_MissingAccessTokenIsFailure ==
    \A resp \in AnswersOf("token") :
        (TokenBody(resp) /\ resp.access_token = Absent)
        => ( /\ ret_token = NoneVal
             /\ InSeq(log, "ERROR Access token not found in response.")
             /\ InSeq(ui, "error: Could not retrieve access token from Spotify response.")
             /\ \A i \in DOMAIN ui :
                    ui[i] \notin { "error: Network or API error obtaining token: " \o exc :
                                       exc \in {"ConnectionError", "HTTPError", "JSONDecodeError"} }
                    /\ ui[i] # "error: An unexpected error occurred. Check logs."
             /\ TokenStored => ( /\ session = NoneVal
                                 /\ InSeq(ui, "error: Failed to get token. Check credentials.") ) )

C3_Witness ==
    /\ pc = "page_40"
    /\ \E resp \in AnswersOf("token") : TokenBody(resp) /\ resp.access_token = Absent
    /\ ret_token = NoneVal
    /\ InSeq(ui, "error: Could not retrieve access token from Spotify response.")

\* C4: a call of search_tracks with a non-empty token and a limit above 50
\* sends exactly one search request, whose limit parameter is 50.
C4_LimitClampedTo50 ==
    ( /\ args.fn = "search_tracks"
      /\ pc # "search_tracks"
      /\ ~Empty(args.token)
      /\ args.limit > 50 )
    => ( /\ Len(sent) = 1
         /\ sent[1].endpoint = "search"
         /\ sent[1].limit = 50 )

C4_Witness ==
    /\ pc = "search_tracks_wait"
    /\ args.fn = "search_tracks"
    /\ args.limit = 51
    /\ Len(sent) = 1
    /\ sent[1].limit = 50

\* C5: in the displayed track list every id occurs exactly once, and the ids
\* are in the order of their first occurrence in the search response.
C5_DedupFirstSeenOrder ==
    TracksShown =>
        /\ \A i, j \in DOMAIN df_tracks : i < j => df_tracks[i].id # df_tracks[j].id
        /\ \A i \in DOMAIN df_tracks : \E k \in DOMAIN tracks_raw : RawId(tracks_raw[k]) = df_tracks[i].id
        /\ \A i, j \in DOMAIN df_tracks :
               i < j => FirstIndex(df_tracks[i].id) < FirstIndex(df_tracks[j].id)
        /\ track_ids = [i \in DOMAIN df_tracks |-> df_tracks[i].id]

C5_Witness ==
    /\ TracksShown
    /\ Len(tracks_raw) = 3
    /\ RawId(tracks_raw[1]) = "A"
    /\ RawId(tracks_raw[2]) = "B"
    /\ RawId(tracks_raw[3]) = "A"
    /\ tracks_raw[1] # tracks_raw[3]
    /\ track_ids = <<"A", "B">>
    /\ df_tracks[1].name = tracks_raw[1].name

\* C6: every displayed track has a non-empty id, and every entry of the
\* search response with a non-empty id is represented in the displayed list.
C6_OnlyTracksWithIdShown ==
    TracksShown =>
        /\ \A i \in DOMAIN df_tracks : ~Empty(df_tracks[i].id)
        /\ \A k \in DOMAIN tracks_raw :
               ~Empty(RawId(tracks_raw[k]))
               => \E i \in DOMAIN df_tracks : df_tracks[i].id = RawId(tracks_raw[k])

C6_Witness ==
    /\ TracksShown
    /\ Len(tracks_raw) = 3
    /\ "id" \in tracks_raw[1].missing
    /\ RawId(tracks_raw[2]) = "B"
    /\ ~tracks_raw[3].null /\ tracks_raw[3].id = "" /\ tracks_raw[3].missing = {}
    /\ track_ids = <<"B">>

\* The search endpoint answered 2xx with a body that carries no items.
ZeroItems(resp) ==
    /\ Is2xx(resp)
    /\ resp.json = "object"
    /\ \/ resp.tracks = "absent"
       \/ resp.tracks = "object" /\ resp.items_key = "absent"
       \/ resp.tracks = "object" /\ resp.items_key = "list" /\ resp.items = <<>>

\* C7: in a page run whose search returns zero items, no request goes to the
\* features endpoint and the run ends with the "No tracks found" warning.
C7_ZeroItemsNoFeatureFetch ==
    (caller = "page" /\ \E resp \in AnswersOf("search") : ZeroItems(resp))
    => ( /\ ~SentTo("features")
         /\ pc # "page_57" => ( /\ pc = "done"
                                /\ InSeq(ui, "warning: No tracks found for your query.") ) )

C7_Witness ==
    /\ pc = "done"
    /\ \E resp \in AnswersOf("search") :
          ZeroItems(resp) /\ resp.tracks = "object" /\ resp.items_key = "list"
    /\ InSeq(ui, "warning: No tracks found for your query.")
    /\ ~SentTo("features")

\* The token fetch of this run has failed: the credentials are missing, or
\* the token endpoint did not answer 2xx with a non-empty access_token.
TokenFetchFailed ==
    /\ pc \notin {"load", "get_spotify_token", "get_spotify_token_wait"}
    /\ \/ CLIENT_ID = "" \/ CLIENT_SECRET = ""
       \/ \E resp \in AnswersOf("token") :
             ~(TokenBody(resp) /\ ~Empty(resp.access_token))

\* C8: in a page run whose token fetch failed, the session token is empty
\* and no request goes to the search or the features endpoint, whatever the
\* user submits.
C8_FailedTokenBlocksDownstream ==
    TokenFetchFailed
    => ( /\ TokenStored => session = NoneVal
         /\ ~SentTo("search")
         /\ ~SentTo("features") )

C8_Witness ==
    /\ pc = "done"
    /\ TokenFetchFailed
    /\ \E resp \in AnswersOf("token") : resp.net = "ok" /\ resp.status = 401
    /\ search_query = "Discover"
    /\ InSeq(ui, "error: Please enter your Spotify credentials and click 'Get Spotify Token' first.")
    /\ session = NoneVal
    /\ sent = <<TokenRequest("cid", "secret")>>

\* C9: no uncaught fault propagates to the top level of a page run, whatever
\* the three endpoints answer.
C9_NoUncaughtFault == fault = "none" /\ pc # "fault"

\* C10: the requests of a page run are sequential in the order token,
\* search, features: at most one request is in flight, the search request is
\* issued only after the token request of the run was answered with a token,
\* and the features request only after the search request was answered with
\* at least one track.
C10_SequentialTokenSearchFeatures ==
    /\ Cardinality(inflight) <= 1
    /\ Len(sent) <= 3
    /\ \A i \in DOMAIN sent : sent[i].endpoint = <<"token", "search", "features">>[i]
    /\ Len(answered) \in {Len(sent) - 1, Len(sent)}
    /\ \A i \in DOMAIN answered : answered[i].endpoint = sent[i].endpoint
    /\ inflight = IF Len(answered) < Len(sent) THEN {sent[Len(sent)].endpoint} ELSE {}
    /\ SentTo("search")
       => ( /\ Len(answered) >= 1
            /\ TokenBody(answered[1].resp)
            /\ ~Empty(answered[1].resp.access_token)
            /\ sent[2].authorization = "Bearer " \o answered[1].resp.access_token )
    /\ SentTo("features")
       => ( /\ Len(answered) >= 2
            /\ Is2xx(answered[2].resp)
            /\ answered[2].resp.json = "object"
            /\ answered[2].resp.tracks = "object"
            /\ answered[2].resp.items_key = "list"
            /\ \E k \in DOMAIN answered[2].resp.items :
                   ~Empty(RawId(answered[2].resp.items[k])) )

C10_Witness ==
    /\ pc = "done"
    /\ Len(sent) = 3
    /\ Len(answered) = 3
    /\ sent[3].endpoint = "features"
    /\ sent[3].ids = "A,B"
    /\ inflight = {}

====
